---- MODULE Spec2Model ----
(***************************************************************************)
(* Model of python-merbinnertree: the immutable merklized binary radix     *)
(* tree of src/merbinnertree/__init__.py (class SHA256MerbinnerTree).      *)
(*                                                                         *)
(* Byte strings are sequences of integers 0..255.  A node is a record      *)
(* whose field "type" names its class.  Python object identity is kept by  *)
(* the field "fresh": an object created during the call in progress has    *)
(* fresh = TRUE, an object that existed before the call has fresh = FALSE, *)
(* so that `a is b` against a pre-existing object b is record equality.    *)
(* A raised exception is a record whose type is the exception's name.      *)
(***************************************************************************)
EXTENDS Integers, Sequences, FiniteSets, TLC

VARIABLES tree, expected, last, prev

vars == <<tree, expected, last, prev>>

\* ------------------------------------------------------------------ bounds

\* longest key list handed to prove_contains
MaxQ == 2
\* most keys a tree holds at a time
MaxKeys == 3
\* most pairs handed to a bulk construction
MaxItems == 3

\* ------------------------------------------------------------ byte strings

KEYSIZE == 32

\* the tests' helper k(): key.ljust(32, b'\x00')
k(prefix) == prefix \o [i \in 1..(KEYSIZE - Len(prefix)) |-> 0]

K00 == k(<<0>>)
K80 == k(<<128>>)
KFF == k(<<255>>)
KFF80 == k(<<255, 128>>)

\* the keys of the right length that operations are called with
Keys == {K00, K80, KFF, KFF80}
\* a byte string of the wrong length (b'')
ShortKey == <<>>
\* a key that is no bytes object: a str of KEYSIZE characters, written as a
\* sequence of elements that are not bytes
StrKey == [i \in 1..KEYSIZE |-> -1]
\* the values (b'a', b'b')
Values == {<<97>>, <<98>>}

RECURSIVE SumBytes(_)
SumBytes(data) ==
    IF data = <<>> THEN 0 ELSE Head(data) + SumBytes(Tail(data))

\* hashlib.sha256(data).digest(): a 32-byte digest, a fixed function of the
\* data that is injective on the byte strings it is applied to here
sha256(data) ==
    [i \in 1..32 |-> (SumBytes(data) * (i + 2) + 31 * Len(data) + i) % 256]

calc_value_hash(value) == sha256(value)

\* bytes comparison a > b (lexicographic)
RECURSIVE BytesGT(_, _)
BytesGT(a, b) ==
    IF a = <<>> THEN FALSE
    ELSE IF b = <<>> THEN TRUE
    ELSE IF Head(a) # Head(b) THEN Head(a) > Head(b)
    ELSE BytesGT(Tail(a), Tail(b))

\* ------------------------------------------------------------------- nodes

ErrorTypes == {"TypeError", "ValueError", "KeyError", "NameError",
               "AttributeError", "AssertionError", "IndexError",
               "NotImplementedError"}

Raise(name) == [type |-> name]
IsError(r) == r.type \in ErrorTypes

\* the value None
None == [type |-> "None"]

\* EmptyNodeClass(): the singleton
EmptyNode == [type |-> "Empty"]

FullLeafNode(key, value) ==
    [type |-> "FullLeaf", fresh |-> TRUE, key |-> key, value |-> value]

PrunedLeafNode(key, value_hash) ==
    [type |-> "PrunedLeaf", fresh |-> TRUE, key |-> key,
     value_hash |-> value_hash]

PrunedInnerNode(pruned_hash) ==
    [type |-> "PrunedInner", fresh |-> TRUE, pruned_hash |-> pruned_hash]

from_FullLeafNode(full_leaf_node) ==
    PrunedLeafNode(full_leaf_node.key, calc_value_hash(full_leaf_node.value))

IsEmpty(n) == n.type = "Empty"
IsLeaf(n) == n.type \in {"FullLeaf", "PrunedLeaf"}

\* InnerNodeClass without the depth-optimizing returns
InnerNode_NoCollapse(left, right) ==
    IF ~ (~ (IsLeaf(left) /\ IsLeaf(right)) \/ BytesGT(left.key, right.key))
    THEN Raise("AssertionError")
    ELSE [type |-> "Inner", fresh |-> TRUE, left |-> left, right |-> right]

\* InnerNodeClass returning the other child whenever one child is Empty
InnerNode_CollapseAny(left, right) ==
    IF IsEmpty(left) THEN right
    ELSE IF IsEmpty(right) THEN left
    ELSE IF ~ (~ (IsLeaf(left) /\ IsLeaf(right)) \/ BytesGT(left.key, right.key))
    THEN Raise("AssertionError")
    ELSE [type |-> "Inner", fresh |-> TRUE, left |-> left, right |-> right]

\* InnerNodeClass keeping a leaf on the left of Empty below a new node
InnerNode_KeepLeftLeaf(left, right) ==
    IF IsEmpty(left) /\ (IsEmpty(right) \/ IsLeaf(right)) THEN right
    ELSE IF IsEmpty(right) /\ IsEmpty(left) THEN left
    ELSE IF ~ (~ (IsLeaf(left) /\ IsLeaf(right)) \/ BytesGT(left.key, right.key))
    THEN Raise("AssertionError")
    ELSE [type |-> "Inner", fresh |-> TRUE, left |-> left, right |-> right]

\* InnerNodeClass(left, right)
InnerNode(left, right) ==
    IF IsEmpty(left) /\ (IsEmpty(right) \/ IsLeaf(right)) THEN right
    ELSE IF IsEmpty(right) /\ (IsEmpty(left) \/ IsLeaf(left)) THEN left
    ELSE IF ~ (~ (IsLeaf(left) /\ IsLeaf(right)) \/ BytesGT(left.key, right.key))
    THEN Raise("AssertionError")
    ELSE [type |-> "Inner", fresh |-> TRUE, left |-> left, right |-> right]

\* the objects of a finished call are no longer new to the next call
RECURSIVE Existing(_)
Existing(n) ==
    IF n.type = "Inner"
    THEN [type |-> "Inner", fresh |-> FALSE,
          left |-> Existing(n.left), right |-> Existing(n.right)]
    ELSE IF n.type \in {"FullLeaf", "PrunedLeaf", "PrunedInner"}
    THEN [n EXCEPT !.fresh = FALSE]
    ELSE n

\* ------------------------------------------------------------ key checking

\* isinstance(key, bytes)
IsBytes(key) == \A i \in 1..Len(key) : key[i] \in 0..255

check_key(key) ==
    IF ~ IsBytes(key) THEN Raise("TypeError")
    ELSE IF Len(key) # KEYSIZE THEN Raise("ValueError")
    ELSE None

\* key_side counting the bits of a byte from the least significant one
key_side_LowBitFirst(key, depth) ==
    (key[(depth \div 8) + 1] \div (2 ^ (depth % 8))) % 2

\* key[depth // 8] >> (7 - depth % 8) & 0b1
key_side(key, depth) ==
    (key[(depth \div 8) + 1] \div (2 ^ (7 - (depth % 8)))) % 2

\* -------------------------------------------------------------------- hash

Bytes(data) == [type |-> "bytes", data |-> data]

\* the hash property with leaves that leave their key out of the data
RECURSIVE hash_LeafWithoutKey(_)
hash_LeafWithoutKey(n) ==
    CASE n.type = "Empty" -> Bytes(<<0>>)
      [] n.type = "Inner" ->
            LET l == hash_LeafWithoutKey(n.left)
                r == hash_LeafWithoutKey(n.right)
            IN  IF IsError(l) THEN l
                ELSE IF IsError(r) THEN r
                ELSE Bytes(l.data \o r.data \o <<1>>)
      [] n.type = "FullLeaf" -> Bytes(calc_value_hash(n.value) \o <<2>>)
      [] n.type = "PrunedLeaf" -> Bytes(n.value_hash \o <<2>>)
      [] n.type = "PrunedInner" -> Raise("NotImplementedError")
      [] OTHER -> Raise("AttributeError")

\* the hash property: the cached calc_hash_data() of the node
RECURSIVE hash(_)
hash(n) ==
    CASE n.type = "Empty" -> Bytes(<<0>>)
      [] n.type = "Inner" ->
            LET l == hash(n.left)
            IN  IF IsError(l) THEN l
                ELSE LET r == hash(n.right)
                     IN  IF IsError(r) THEN r
                         ELSE Bytes(l.data \o r.data \o <<1>>)
      [] n.type = "FullLeaf" ->
            Bytes(calc_value_hash(n.value) \o n.key \o <<2>>)
      [] n.type = "PrunedLeaf" -> Bytes(n.value_hash \o n.key \o <<2>>)
      [] n.type = "PrunedInner" -> Raise("NotImplementedError")
      [] OTHER -> Raise("AttributeError")

\* ------------------------------------------------------- bulk construction

\* the keys of leaf_nodes agree on every bit from depth on
NeverSplit(leaf_nodes, depth) ==
    LET byte == (depth \div 8) + 1
        BitsFrom(key) ==
            IF byte > KEYSIZE THEN <<>>
            ELSE <<key[byte] % (2 ^ (8 - (depth % 8)))>>
                     \o SubSeq(key, byte + 1, KEYSIZE)
    IN  \A i \in 1..Len(leaf_nodes) :
            BitsFrom(leaf_nodes[i].key) = BitsFrom(leaf_nodes[1].key)

\* Leaves that never split all go to the same side, level after level, until
\* key_side reads key[KEYSIZE] at depth 8 * KEYSIZE and raises IndexError.
RECURSIVE _mt_from_leaf_nodes(_, _)
_mt_from_leaf_nodes(leaf_nodes, depth) ==
    IF Len(leaf_nodes) > 1
    THEN IF NeverSplit(leaf_nodes, depth) THEN Raise("IndexError")
         ELSE LET IsLeft(leaf_node) == key_side(leaf_node.key, depth) = 1
                  IsRight(leaf_node) == key_side(leaf_node.key, depth) = 0
                  left == _mt_from_leaf_nodes(SelectSeq(leaf_nodes, IsLeft),
                                              depth + 1)
              IN  IF IsError(left) THEN left
                  ELSE LET right ==
                             _mt_from_leaf_nodes(SelectSeq(leaf_nodes, IsRight),
                                                 depth + 1)
                       IN  IF IsError(right) THEN right
                           ELSE InnerNode(left, right)
    ELSE IF Len(leaf_nodes) = 1 THEN leaf_nodes[1]
    ELSE EmptyNode

\* MerbinnerTree(items): items is a sequence of <<key, value>>
MerbinnerTree(items) ==
    _mt_from_leaf_nodes(
        [i \in 1..Len(items) |-> FullLeafNode(items[i][1], items[i][2])], 0)

\* ----------------------------------------------------------- _mt_put_keys

\* the keys of items, and the items whose key takes a side at depth
ItemKeys(items) == {items[i][1] : i \in 1..Len(items)}
LeftItems(items, depth) ==
    LET IsLeft(item) == key_side(item[1], depth) = 1
    IN  SelectSeq(items, IsLeft)
RightItems(items, depth) ==
    LET IsRight(item) == key_side(item[1], depth) = 0
    IN  SelectSeq(items, IsRight)

\* the value (new_tree, pruned_tree) a call returns, with the keys the call
\* added to changed_keys
Pair(new_tree, pruned_tree, changed_keys) ==
    [type |-> "pair", new |-> new_tree, pruned |-> pruned_tree,
     changed |-> changed_keys]

\* MerbinnerTreeEmptyNodeClass._mt_put_keys
Empty_mt_put_keys(self, items, depth, prove) ==
    LET NotSelf(item) == item[2] # self
        kept == SelectSeq(items, NotSelf)
        leaf_nodes == [i \in 1..Len(kept) |-> kept[i][2]]
        new_tree == _mt_from_leaf_nodes(leaf_nodes, depth)
    IN  IF IsError(new_tree) THEN new_tree
        ELSE Pair(new_tree, self, ItemKeys(kept))

\* Leaf _mt_put_keys building the new subtree one level too deep
Leaf_mt_put_keys_Deeper(self, items, depth, prove) ==
    LET add_ourself == ~ \E i \in 1..Len(items) : self.key = items[i][1]
        NotEmpty(item) == ~ IsEmpty(item[2])
        kept == SelectSeq(items, NotEmpty)
        added == [i \in 1..Len(kept) |-> kept[i][2]]
        leaf_nodes == IF add_ourself THEN <<self>> \o added ELSE added
        changed_keys == (ItemKeys(items) \cap {self.key}) \cup ItemKeys(kept)
        new_tree == _mt_from_leaf_nodes(leaf_nodes, depth + 1)
    IN  IF IsError(new_tree) THEN new_tree
        ELSE Pair(new_tree, IF prove THEN self ELSE None, changed_keys)

\* Leaf _mt_put_keys keeping the leaf when its own key is put
Leaf_mt_put_keys_KeepOld(self, items, depth, prove) ==
    LET Other(item) == ~ IsEmpty(item[2]) /\ item[1] # self.key
        kept == SelectSeq(items, Other)
        added == [i \in 1..Len(kept) |-> kept[i][2]]
        new_tree == _mt_from_leaf_nodes(<<self>> \o added, depth)
    IN  IF IsError(new_tree) THEN new_tree
        ELSE Pair(new_tree, IF prove THEN self ELSE None, ItemKeys(items))

\* Leaf _mt_put_keys never adding the leaf itself to the new subtree
Leaf_mt_put_keys_DropSelf(self, items, depth, prove) ==
    LET NotEmpty(item) == ~ IsEmpty(item[2])
        kept == SelectSeq(items, NotEmpty)
        added == [i \in 1..Len(kept) |-> kept[i][2]]
        changed_keys == (ItemKeys(items) \cap {self.key}) \cup ItemKeys(kept)
        new_tree == _mt_from_leaf_nodes(added, depth)
    IN  IF IsError(new_tree) THEN new_tree
        ELSE Pair(new_tree, IF prove THEN self ELSE None, changed_keys)

\* Leaf _mt_put_keys keeping the leaf when its own key is removed
Leaf_mt_put_keys_KeepRemoved(self, items, depth, prove) ==
    LET add_ourself == ~ \E i \in 1..Len(items) :
                             self.key = items[i][1] /\ ~ IsEmpty(items[i][2])
        NotEmpty(item) == ~ IsEmpty(item[2])
        kept == SelectSeq(items, NotEmpty)
        added == [i \in 1..Len(kept) |-> kept[i][2]]
        leaf_nodes == IF add_ourself THEN <<self>> \o added ELSE added
        changed_keys == (ItemKeys(items) \cap {self.key}) \cup ItemKeys(kept)
        new_tree == _mt_from_leaf_nodes(leaf_nodes, depth)
    IN  IF IsError(new_tree) THEN new_tree
        ELSE Pair(new_tree, IF prove THEN self ELSE None, changed_keys)

\* MerbinnerTreeLeafNodeClass._mt_put_keys
Leaf_mt_put_keys(self, items, depth, prove) ==
    LET add_ourself == ~ \E i \in 1..Len(items) : self.key = items[i][1]
        NotEmpty(item) == ~ IsEmpty(item[2])
        kept == SelectSeq(items, NotEmpty)
        added == [i \in 1..Len(kept) |-> kept[i][2]]
        leaf_nodes == IF add_ourself THEN <<self>> \o added ELSE added
        changed_keys == (ItemKeys(items) \cap {self.key}) \cup ItemKeys(kept)
        new_tree == _mt_from_leaf_nodes(leaf_nodes, depth)
        \* pruned_tree is None when tested, so the else branch is taken
        pruned_tree == IF prove THEN self ELSE None
    IN  IF IsError(new_tree) THEN new_tree
        ELSE Pair(new_tree, pruned_tree, changed_keys)

\* MerbinnerTreePrunedInnerNodeClass._mt_put_keys: `key` is not a name of
\* the method, so building the PrunedError raises NameError
PrunedInner_mt_put_keys(self, items, depth, prove) ==
    IF Len(items) > 0 THEN Raise("NameError")
    ELSE Pair(self, self, {})

RECURSIVE _mt_put_keys(_, _, _, _)

\* Inner _mt_put_keys noticing a change of the left child only
Inner_mt_put_keys_LeftOnly(self, items, depth, prove) ==
    IF Len(items) > 0
    THEN LET l == _mt_put_keys(self.left, LeftItems(items, depth),
                               depth + 1, prove)
             r == _mt_put_keys(self.right, RightItems(items, depth),
                               depth + 1, prove)
         IN  IF IsError(l) THEN l
             ELSE IF IsError(r) THEN r
             ELSE LET new_node == IF l.new # self.left
                                  THEN InnerNode(l.new, r.new) ELSE self
                  IN  IF IsError(new_node) THEN new_node
                      ELSE Pair(new_node, None, l.changed \cup r.changed)
    ELSE Pair(self, None, {})

\* Inner _mt_put_keys returning a copy of itself when it is given no item
Inner_mt_put_keys_CopyUntouched(self, items, depth, prove) ==
    IF Len(items) > 0
    THEN LET l == _mt_put_keys(self.left, LeftItems(items, depth),
                               depth + 1, prove)
             r == _mt_put_keys(self.right, RightItems(items, depth),
                               depth + 1, prove)
         IN  IF IsError(l) THEN l
             ELSE IF IsError(r) THEN r
             ELSE LET new_node == IF l.new # self.left \/ r.new # self.right
                                  THEN InnerNode(l.new, r.new) ELSE self
                  IN  IF IsError(new_node) THEN new_node
                      ELSE Pair(new_node, None, l.changed \cup r.changed)
    ELSE Pair(InnerNode(self.left, self.right), None, {})

\* MerbinnerTreeInnerNodeClass._mt_put_keys
Inner_mt_put_keys(self, items, depth, prove) ==
    IF Len(items) > 0
    THEN LET l == _mt_put_keys(self.left, LeftItems(items, depth),
                               depth + 1, prove)
         IN  IF IsError(l) THEN l
             ELSE
             LET r == _mt_put_keys(self.right, RightItems(items, depth),
                                   depth + 1, prove)
             IN  IF IsError(r) THEN r
                 ELSE
                 LET new_node ==
                         IF l.new # self.left \/ r.new # self.right
                         THEN InnerNode(l.new, r.new)
                         ELSE self
                     pruned_node ==
                         IF prove /\ (l.pruned # self.left
                                      \/ r.pruned # self.right)
                         THEN InnerNode(l.pruned, r.pruned)
                         ELSE None
                 IN  IF IsError(new_node) THEN new_node
                     ELSE IF IsError(pruned_node) THEN pruned_node
                     ELSE Pair(new_node, pruned_node,
                               l.changed \cup r.changed)
    \* PrunedInnerNodeClass has no from_inner_node
    ELSE IF prove THEN Raise("AttributeError")
    ELSE Pair(self, None, {})

\* self._mt_put_keys(changed_keys, items, depth, prove), by the class of self
_mt_put_keys(self, items, depth, prove) ==
    CASE self.type = "Empty" -> Empty_mt_put_keys(self, items, depth, prove)
      [] self.type = "Inner" -> Inner_mt_put_keys(self, items, depth, prove)
      [] self.type = "PrunedInner" ->
            PrunedInner_mt_put_keys(self, items, depth, prove)
      [] IsLeaf(self) -> Leaf_mt_put_keys(self, items, depth, prove)
      [] OTHER -> Raise("AttributeError")

\* MerbinnerTree.put
put(self, key, value) ==
    IF IsError(check_key(key)) THEN check_key(key)
    ELSE LET leaf_node == FullLeafNode(key, value)
             r == _mt_put_keys(self, <<<<key, leaf_node>>>>, 0, FALSE)
         IN  IF IsError(r) THEN r
             ELSE IF ~ (Cardinality(r.changed) <= 1)
             THEN Raise("AssertionError")
             ELSE IF key \notin r.changed THEN Raise("KeyError")
             ELSE r.new

\* remove without the check that the key was changed
remove_Unchecked(self, key) ==
    IF IsError(check_key(key)) THEN check_key(key)
    ELSE LET r == _mt_put_keys(self, <<<<key, EmptyNode>>>>, 0, FALSE)
         IN  IF IsError(r) THEN r ELSE r.new

\* MerbinnerTree.remove
remove(self, key) ==
    IF IsError(check_key(key)) THEN check_key(key)
    ELSE LET r == _mt_put_keys(self, <<<<key, EmptyNode>>>>, 0, FALSE)
         IN  IF IsError(r) THEN r
             ELSE IF key \notin r.changed THEN Raise("KeyError")
             ELSE r.new

\* ----------------------------------------------------------- _mt_get_keys

LeftKeys(keys, depth) ==
    LET IsLeft(key) == key_side(key, depth) = 1
    IN  SelectSeq(keys, IsLeft)
RightKeys(keys, depth) ==
    LET IsRight(key) == key_side(key, depth) = 0
    IN  SelectSeq(keys, IsRight)

\* the empty dict
EmptyDict == [key \in {} |-> None]

\* what a call returns, with the entries the call set in the dict `result`
Got(result, ret) == [type |-> "got", result |-> result, ret |-> ret]

\* MerbinnerTreeEmptyNodeClass._mt_get_keys(self, result, keys, depth, prove)
Empty_mt_get_keys(self, keys, depth, prove) == Got(EmptyDict, self)

\* _mt_get_keys_common without the comparison of the keys
_mt_get_keys_common_AnyKey(self, keys, depth, ignore_missing, prove) ==
    IF Len(keys) > 0 THEN (keys[1] :> self) ELSE EmptyDict

\* MerbinnerTreeLeafNodeClass._mt_get_keys_common: the entry set in result
\* (found_match is that an entry was set)
_mt_get_keys_common(self, keys, depth, ignore_missing, prove) ==
    IF \E i \in 1..Len(keys) : self.key = keys[i]
    THEN (self.key :> self)
    ELSE EmptyDict

\* MerbinnerTreeFullLeafNodeClass._mt_get_keys(self, result, keys, depth,
\*                                             ignore_missing=False, prove=False)
FullLeaf_mt_get_keys(self, keys, depth, ignore_missing, prove) ==
    LET found == _mt_get_keys_common(self, keys, depth, ignore_missing, prove)
    IN  IF DOMAIN found # {} THEN Got(found, self)
        ELSE IF prove THEN Got(found, from_FullLeafNode(self))
        ELSE Got(found, None)

\* MerbinnerTreePrunedLeafNodeClass._mt_get_keys(self, result, keys, depth,
\*                                               ignore_missing=False, prove=False)
PrunedLeaf_mt_get_keys(self, keys, depth, ignore_missing, prove) ==
    Got(_mt_get_keys_common(self, keys, depth, ignore_missing, prove), self)

\* MerbinnerTreePrunedInnerNodeClass._mt_get_keys (the second definition,
\* which replaces the first): `key` is not a name of the method, so building
\* the PrunedError raises NameError
PrunedInner_mt_get_keys(self, keys, depth, ignore_missing, prove) ==
    IF Len(keys) > 0 THEN Raise("NameError")
    ELSE Got(EmptyDict, self)

RECURSIVE _mt_get_keys(_, _, _, _)

\* MerbinnerTreeInnerNodeClass._mt_get_keys(self, result, keys, depth, prove)
Inner_mt_get_keys(self, keys, depth, prove) ==
    IF Len(keys) > 0
    THEN LET l == _mt_get_keys(self.left, LeftKeys(keys, depth),
                               depth + 1, prove)
         IN  IF IsError(l) THEN l
             ELSE
             LET r == _mt_get_keys(self.right, RightKeys(keys, depth),
                                   depth + 1, prove)
             IN  IF IsError(r) THEN r
                 ELSE IF prove
                 THEN LET node == InnerNode(l.ret, r.ret)
                      IN  IF IsError(node) THEN node
                          ELSE Got(l.result @@ r.result, node)
                 ELSE Got(l.result @@ r.result, None)
    \* PrunedInnerNodeClass has no from_inner_node
    ELSE IF prove THEN Raise("AttributeError")
    ELSE Got(EmptyDict, None)

\* self._mt_get_keys(result, keys, depth, arg4) with four positional
\* arguments, by the class of self: the fourth parameter is prove for an
\* Empty or Inner node and ignore_missing for a leaf or PrunedInner node,
\* whose prove then keeps its default False
_mt_get_keys(self, keys, depth, arg4) ==
    CASE self.type = "Empty" -> Empty_mt_get_keys(self, keys, depth, arg4)
      [] self.type = "Inner" -> Inner_mt_get_keys(self, keys, depth, arg4)
      [] self.type = "PrunedInner" ->
            PrunedInner_mt_get_keys(self, keys, depth, arg4, FALSE)
      [] self.type = "FullLeaf" ->
            FullLeaf_mt_get_keys(self, keys, depth, arg4, FALSE)
      [] self.type = "PrunedLeaf" ->
            PrunedLeaf_mt_get_keys(self, keys, depth, arg4, FALSE)
      [] OTHER -> Raise("AttributeError")

Value(value) == [type |-> "value", value |-> value]
Bool(b) == [type |-> "bool", bool |-> b]

\* MerbinnerTree.__getitem__
__getitem__(self, key) ==
    IF IsError(check_key(key)) THEN check_key(key)
    ELSE LET r == _mt_get_keys(self, <<key>>, 0, FALSE)
         IN  IF IsError(r) THEN r
             ELSE IF key \notin DOMAIN r.result THEN Raise("KeyError")
             ELSE LET found_node == r.result[key]
                  IN  IF found_node.type = "FullLeaf"
                      THEN Value(found_node.value)
                      \* PrunedError is not a name of the method
                      ELSE IF found_node.type # "PrunedLeaf"
                      THEN Raise("AssertionError")
                      ELSE Raise("NameError")

\* __contains__ answering False for a key that check_key rejects
__contains___ErrorsAreFalse(self, key) ==
    IF IsError(check_key(key)) THEN Bool(FALSE)
    ELSE LET r == _mt_get_keys(self, <<key>>, 0, FALSE)
         IN  IF IsError(r) THEN r
             ELSE Bool(key \in DOMAIN r.result)

\* MerbinnerTree.__contains__
__contains__(self, key) ==
    IF IsError(check_key(key)) THEN check_key(key)
    ELSE LET r == _mt_get_keys(self, <<key>>, 0, FALSE)
         IN  IF IsError(r) THEN r
             ELSE Bool(key \in DOMAIN r.result)

\* prove_contains(keys), which the tests call and the spec describes: the
\* co-walk _mt_get_keys of the tree with the keys, with prove=True
prove_contains(self, keys) ==
    LET r == CASE self.type = "Empty" -> Empty_mt_get_keys(self, keys, 0, TRUE)
               [] self.type = "Inner" -> Inner_mt_get_keys(self, keys, 0, TRUE)
               [] self.type = "PrunedInner" ->
                     PrunedInner_mt_get_keys(self, keys, 0, FALSE, TRUE)
               [] self.type = "FullLeaf" ->
                     FullLeaf_mt_get_keys(self, keys, 0, FALSE, TRUE)
               [] self.type = "PrunedLeaf" ->
                     PrunedLeaf_mt_get_keys(self, keys, 0, FALSE, TRUE)
               [] OTHER -> Raise("AttributeError")
    IN  IF IsError(r) THEN r ELSE r.ret

\* --------------------------------------------------------------- iteration

\* _mt_iter_nodes yielding the nodes of the left child twice
RECURSIVE _mt_iter_nodes_LeftTwice(_)
_mt_iter_nodes_LeftTwice(self) ==
    IF self.type = "Inner"
    THEN _mt_iter_nodes_LeftTwice(self.left)
             \o _mt_iter_nodes_LeftTwice(self.left)
             \o _mt_iter_nodes_LeftTwice(self.right) \o <<self>>
    ELSE <<self>>

\* MerbinnerTree._mt_iter_nodes, MerbinnerTreeInnerNodeClass._mt_iter_nodes:
\* left nodes, right nodes, then self
RECURSIVE _mt_iter_nodes(_)
_mt_iter_nodes(self) ==
    IF self.type = "Inner"
    THEN _mt_iter_nodes(self.left) \o _mt_iter_nodes(self.right) \o <<self>>
    ELSE <<self>>

\* MerbinnerTree.keys: the keys of the nodes that have one
keys(self) ==
    LET HasKey(node) == IsLeaf(node)
        nodes == SelectSeq(_mt_iter_nodes(self), HasKey)
    IN  [i \in 1..Len(nodes) |-> nodes[i].key]

\* ------------------------------------------- merbinertree (the older module)

RECURSIVE Old_mt_remove(_, _, _)
\* src/merbinertree: _mt_remove of the Empty, Inner, PrunedInner and leaf
\* node classes
Old_mt_remove(self, key, depth) ==
    CASE self.type = "Empty" -> Raise("KeyError")
      [] self.type = "Inner" ->
            LET new == Old_mt_remove(IF key_side(key, depth) = 1
                                     THEN self.left ELSE self.right,
                                     key, depth + 1)
                new_left == IF key_side(key, depth) = 1 THEN new ELSE self.left
                new_right == IF key_side(key, depth) = 1 THEN self.right ELSE new
            IN  IF IsError(new) THEN new
                ELSE IF ~ (new_left # self.left \/ new_right # self.right)
                THEN Raise("AssertionError")
                ELSE InnerNode(new_left, new_right)
      \* PrunedError.__init__(msg, key, depth) takes three arguments and is
      \* given four
      [] self.type = "PrunedInner" -> Raise("TypeError")
      [] IsLeaf(self) ->
            IF self.key = key THEN EmptyNode ELSE Raise("KeyError")
      [] OTHER -> Raise("AttributeError")

\* src/merbinertree: MerbinerTree.remove
Old_remove(self, key) ==
    IF IsError(check_key(key)) THEN check_key(key)
    ELSE Old_mt_remove(self, key, 0)

\* ------------------------------------------------- merge, put_value_hash

\* SHA256MerbinnerTree.hash_func; no method of the tree calls it
hash_func(data) == sha256(data)

\* the name the first statement of merge() and update() calls; neither the
\* module nor the builtins define it
ininstance(other) == Raise("NameError")

\* _mt_merge(self, tree, depth) of the Empty, Inner, PrunedInner, FullLeaf
\* and PrunedLeaf node classes
_mt_merge(self, other, depth) ==
    CASE self.type = "Empty" -> other
      [] self.type = "Inner" -> Raise("NotImplementedError")
      [] self.type = "PrunedInner" ->
            IF other.type # "PrunedInner" THEN other ELSE self
      [] self.type = "FullLeaf" ->
            IF ~ IsLeaf(other) THEN Raise("AssertionError") ELSE self
      [] self.type = "PrunedLeaf" ->
            IF ~ IsLeaf(other) THEN Raise("AssertionError")
            ELSE IF other.type = "FullLeaf" THEN other
            ELSE self
      [] OTHER -> Raise("AttributeError")

\* MerbinnerTree.merge(self, tree)
merge(self, other) ==
    LET same_class == ininstance(other)
    IN  IF IsError(same_class) THEN same_class
        ELSE IF ~ same_class.bool THEN Raise("TypeError")
        ELSE IF IsError(hash(self)) THEN hash(self)
        ELSE IF IsError(hash(other)) THEN hash(other)
        ELSE IF hash(self) # hash(other) THEN Raise("ValueError")
        ELSE _mt_merge(self, other, 0)

\* src/merbinertree: MerbinerTree.merge, with the same first statement
Old_merge(self, other) ==
    LET same_class == ininstance(other)
    IN  IF IsError(same_class) THEN same_class
        ELSE Raise("AttributeError")

\* MerbinnerTree.put_value_hash
put_value_hash(self, key, value_hash) == Raise("NotImplementedError")

\* src/merbinertree: MerbinerTree.put_value_hash; the class has no
\* check_value_hash
Old_put_value_hash(self, key, value_hash) ==
    IF IsError(check_key(key)) THEN check_key(key)
    ELSE Raise("AttributeError")

\* the trees a holder of self can build from it with the node classes: an
\* Inner node replaced by PrunedInnerNodeClass(its hash), a FullLeaf by
\* PrunedLeafNodeClass.from_FullLeafNode(it), each change made or not
RECURSIVE PrunedForms(_)
PrunedForms(self) ==
    CASE self.type = "Inner" ->
            {Existing(InnerNode(left, right)) :
                 left \in PrunedForms(self.left),
                 right \in PrunedForms(self.right)}
            \cup (IF hash(self).type = "bytes"
                  THEN {Existing(PrunedInnerNode(hash(self).data))}
                  ELSE {})
      [] self.type = "FullLeaf" ->
            {self, Existing(from_FullLeafNode(self))}
      [] OTHER -> {self}

\* ------------------------------------------------------------ state machine

\* tree:     the tree the caller holds (test_random_contents' `tree`)
\* expected: the key -> value map the caller expects it to hold
\* last:     the last call: its arguments, the tree it was made on and what
\*           it returned or raised
\* prev:     the edit (put or remove) made right before the last call, when
\*           the last call is an edit of the same key

Call(op, key, value, key_list, before, result) ==
    [op |-> op, key |-> key, value |-> value, keys |-> key_list,
     before |-> before, result |-> result]

NoCall == Call("none", <<>>, <<>>, <<>>, EmptyNode, None)

IsEdit(call) == call.op \in {"put", "remove"}
IsNode(r) == r.type \in {"Empty", "Inner", "PrunedInner", "FullLeaf",
                         "PrunedLeaf"}

\* every sequence of at most n elements of S
SeqsUpTo(S, n) == UNION {[1..m -> S] : m \in 0..n}

\* the (key, value) pairs of a map, in every order
Orders(map) ==
    {items \in [1..Cardinality(DOMAIN map) -> {<<key, map[key]>> : key \in DOMAIN map}] :
        \A i, j \in DOMAIN items : i # j => items[i] # items[j]}

\* the map with key dropped
Without(map, key) == [x \in DOMAIN map \ {key} |-> map[x]]

Init ==
    /\ tree = EmptyNode
    /\ expected = EmptyDict
    /\ last = NoCall
    /\ prev = NoCall

\* tree = tree.put(key, value)
Put(key, value) ==
    /\ Cardinality(DOMAIN expected \cup {key}) <= MaxKeys
    /\ LET r == put(tree, key, value)
       IN  /\ last' = Call("put", key, value, <<>>, tree, r)
           /\ tree' = IF IsNode(r) THEN Existing(r) ELSE tree
           /\ expected' = IF IsNode(r)
                          THEN (key :> value) @@ expected
                          ELSE expected
    /\ prev' = IF IsEdit(last) /\ last.key = key THEN last ELSE NoCall

\* tree = tree.remove(key)
Remove(key) ==
    /\ LET r == remove(tree, key)
       IN  /\ last' = Call("remove", key, <<>>, <<>>, tree, r)
           /\ tree' = IF IsNode(r) THEN Existing(r) ELSE tree
           /\ expected' = IF IsNode(r) THEN Without(expected, key)
                          ELSE expected
    /\ prev' = IF IsEdit(last) /\ last.key = key THEN last ELSE NoCall

\* tree[key]
Get(key) ==
    /\ last' = Call("get", key, <<>>, <<>>, tree, __getitem__(tree, key))
    /\ prev' = NoCall
    /\ UNCHANGED <<tree, expected>>

\* key in tree
Contains(key) ==
    /\ last' = Call("contains", key, <<>>, <<>>, tree, __contains__(tree, key))
    /\ prev' = NoCall
    /\ UNCHANGED <<tree, expected>>

\* MerbinnerTree(expected_contents), the items taken in any order
Build(items) ==
    /\ last' = Call("build", <<>>, <<>>, [i \in 1..Len(items) |-> items[i][1]],
                    tree, MerbinnerTree(items))
    /\ prev' = NoCall
    /\ UNCHANGED <<tree, expected>>

\* pruned_tree = tree.prove_contains(key_list)
Prove(key_list) ==
    /\ last' = Call("prove_contains", <<>>, <<>>, key_list, tree,
                    prove_contains(tree, key_list))
    /\ prev' = NoCall
    /\ UNCHANGED <<tree, expected>>

Next ==
    \/ \E key \in Keys \cup {ShortKey}, value \in Values : Put(key, value)
    \/ \E key \in Keys \cup {ShortKey} : Remove(key)
    \/ \E key \in Keys \cup {ShortKey} : Get(key)
    \/ \E key \in Keys \cup {ShortKey, StrKey} : Contains(key)
    \/ \E items \in Orders(expected) : Build(items)
    \/ \E key_list \in SeqsUpTo(Keys, MaxQ) : Prove(key_list)

Spec == Init /\ [][Next]_vars

\* the calls that make no proof
NextEdit ==
    \/ \E key \in Keys \cup {ShortKey}, value \in Values : Put(key, value)
    \/ \E key \in Keys \cup {ShortKey} : Remove(key)
    \/ \E key \in Keys \cup {ShortKey} : Get(key)
    \/ \E key \in Keys \cup {ShortKey, StrKey} : Contains(key)
    \/ \E items \in Orders(expected) : Build(items)

EditSpec == Init /\ [][NextEdit]_vars

\* the calls that make trees: edits, bulk builds and proofs
NextTrees ==
    \/ \E key \in Keys, value \in Values : Put(key, value)
    \/ \E key \in Keys : Remove(key)
    \/ \E pairs \in Orders(expected) : Build(pairs)
    \/ \E key_list \in SeqsUpTo(Keys, MaxQ) : Prove(key_list)

TreeSpec == Init /\ [][NextTrees]_vars

\* --------------------------------------------------------- pruned trees

\* a call that is given another node: `before` is the receiver (the left
\* child, for the constructor), `other` the node given
CallOn(op, before, other, result) ==
    [op |-> op, key |-> <<>>, value |-> <<>>, keys |-> <<>>,
     before |-> before, other |-> other, result |-> result]

\* the holder keeps a pruned form of the tree in its place
Prune(pruned) ==
    /\ tree' = pruned
    /\ last' = Call("prune", <<>>, <<>>, <<>>, tree, pruned)
    /\ prev' = NoCall
    /\ UNCHANGED expected

\* tree.merge(other)
Merge(other) ==
    /\ last' = CallOn("merge", tree, other, merge(tree, other))
    /\ prev' = NoCall
    /\ UNCHANGED <<tree, expected>>

\* tree = tree.put_value_hash(key, value_hash)
PutValueHash(key, value_hash) ==
    LET r == put_value_hash(tree, key, value_hash)
    IN  /\ last' = Call("put_value_hash", key, value_hash, <<>>, tree, r)
        /\ tree' = IF IsNode(r) THEN Existing(r) ELSE tree
        /\ prev' = NoCall
        /\ UNCHANGED expected

\* the calls on a tree that may be pruned; the puts write one value
NextPruned ==
    \/ \E key \in Keys : Put(key, <<97>>)
    \/ \E key \in Keys : Remove(key)
    \/ \E key \in Keys : Get(key)
    \/ \E key \in Keys : Contains(key)
    \/ \E key_list \in SeqsUpTo(Keys, 1) : Prove(key_list)
    \/ \E pruned \in PrunedForms(tree) \ {tree} : Prune(pruned)
    \/ \E other \in PrunedForms(tree) \cup PrunedForms(last.before) :
           Merge(other)
    \/ \E key \in Keys, value \in Values :
           PutValueHash(key, calc_value_hash(value))

PrunedSpec == Init /\ [][NextPruned]_vars

\* ------------------------------------------------------- the constructor

\* the nodes the constructor is given: the Empty singleton, a full and a
\* pruned leaf of every key, an Inner node and a PrunedInner node
Children ==
    {EmptyNode}
    \cup {Existing(FullLeafNode(key, <<97>>)) : key \in Keys}
    \cup {Existing(PrunedLeafNode(key, calc_value_hash(<<97>>))) : key \in Keys}
    \cup {Existing(InnerNode(FullLeafNode(KFF, <<97>>),
                             FullLeafNode(K00, <<97>>))),
          Existing(PrunedInnerNode(sha256(<<1>>)))}

\* InnerNodeClass(left, right)
NewInner(left, right) ==
    /\ last' = CallOn("InnerNodeClass", left, right, InnerNode(left, right))
    /\ prev' = NoCall
    /\ UNCHANGED <<tree, expected>>

NextInner == \E left \in Children, right \in Children : NewInner(left, right)

InnerSpec == Init /\ [][NextInner]_vars

\* ------------------------------------------------------ bulk construction

\* MerbinnerTree(pairs) for any sequence of (key, value) pairs, a key
\* occurring more than once among them
BuildFrom(pairs) ==
    /\ last' = Call("from_items", <<>>, <<>>, pairs, tree, MerbinnerTree(pairs))
    /\ prev' = NoCall
    /\ UNCHANGED <<tree, expected>>

NextBulk == \E pairs \in SeqsUpTo(Keys \X Values, MaxItems) : BuildFrom(pairs)

BulkSpec == Init /\ [][NextBulk]_vars

\* ------------------------------------------------------ values(), items()

\* MerbinnerTree.values: the values of the nodes that have one
values(self) ==
    LET HasValue(node) == node.type = "FullLeaf"
        nodes == SelectSeq(_mt_iter_nodes(self), HasValue)
    IN  [i \in 1..Len(nodes) |-> nodes[i].value]

\* MerbinnerTree.items: (key, value) of the nodes that have both
items(self) ==
    LET HasBoth(node) == node.type = "FullLeaf"
        nodes == SelectSeq(_mt_iter_nodes(self), HasBoth)
    IN  [i \in 1..Len(nodes) |-> <<nodes[i].key, nodes[i].value>>]

\* ------------------------------------------------------------------ claims

IsValidKey(key) == IsBytes(key) /\ Len(key) = KEYSIZE
Succeeded(call) == IsNode(call.result)
KeySet(self) == {keys(self)[i] : i \in 1..Len(keys(self))}

\* C1: after any sequence of puts and removes from the empty tree, the root
\* hash of the tree equals the root hash of the tree bulk-built from the
\* expected (key, value) pairs, in whatever order the pairs are given.
C1_HashIsCanonical ==
    last.op = "build" =>
        /\ IsNode(last.result)
        /\ hash(tree).type = "bytes"
        /\ hash(last.result) = hash(tree)

\* a tree of three keys, reached by puts, compared with a bulk build that
\* was given the keys in another order than the tree holds them
C1_Witness ==
    /\ last.op = "build"
    /\ last.keys = <<K00, KFF80, KFF>>
    /\ IsNode(last.result)
    /\ hash(last.result) = hash(tree)

\* C2: T.put(k, v)[k] returns v for every valid key, k absent from T or
\* present in T with another value.
C2_PutThenGet ==
    (last.op = "put" /\ IsValidKey(last.key)) =>
        /\ Succeeded(last)
        /\ __getitem__(tree, last.key) = Value(last.value)

\* a put that replaced the value of a key held below an Inner node
C2_Witness ==
    /\ last.op = "put"
    /\ Succeeded(last)
    /\ last.before.type = "Inner"
    /\ __getitem__(last.before, last.key).type = "value"
    /\ __getitem__(last.before, last.key) # Value(last.value)
    /\ __getitem__(tree, last.key) = Value(last.value)

\* C3: put(k, v) and remove(k) leave every other key j as it was: j is in
\* the result iff it was in T, with the same value.
C3_OtherKeysKept ==
    (IsEdit(last) /\ Succeeded(last)) =>
        \A j \in Keys \ {last.key} :
            /\ __contains__(tree, j) = __contains__(last.before, j)
            /\ __getitem__(tree, j) = __getitem__(last.before, j)

\* a remove from a tree of three keys, the two others still there
C3_Witness ==
    /\ last.op = "remove"
    /\ Succeeded(last)
    /\ Cardinality(KeySet(last.before)) = 3
    /\ \E j \in Keys \ {last.key} : __getitem__(tree, j).type = "value"
    /\ tree.type = "Inner"

\* C4: for k not in T, T.put(k, v).remove(k) succeeds and has the root hash
\* of T.
C4_PutThenRemove ==
    (/\ last.op = "remove"
     /\ prev.op = "put"
     /\ Succeeded(prev)
     /\ __contains__(prev.before, prev.key) = Bool(FALSE)) =>
        /\ Succeeded(last)
        /\ hash(tree).type = "bytes"
        /\ hash(tree) = hash(prev.before)

\* KFF80 put next to KFF (eight Inner nodes deeper) and removed again
C4_Witness ==
    /\ last.op = "remove"
    /\ last.key = KFF80
    /\ Succeeded(last)
    /\ prev.op = "put"
    /\ Succeeded(prev)
    /\ KeySet(prev.before) = {K00, KFF}
    /\ hash(tree) = hash(prev.before)

\* C5: for k in T, T.remove(k).put(k, T[k]) has the root hash of T.
C5_RemoveThenPutBack ==
    (/\ last.op = "put"
     /\ prev.op = "remove"
     /\ Succeeded(prev)
     /\ __getitem__(prev.before, prev.key) = Value(last.value)) =>
        /\ Succeeded(last)
        /\ hash(tree).type = "bytes"
        /\ hash(tree) = hash(prev.before)

\* a key removed from a tree of three keys and put back with its value
C5_Witness ==
    /\ last.op = "put"
    /\ Succeeded(last)
    /\ prev.op = "remove"
    /\ Succeeded(prev)
    /\ Cardinality(KeySet(prev.before)) = 3
    /\ __getitem__(prev.before, prev.key) = Value(last.value)
    /\ hash(tree) = hash(prev.before)

\* C6: remove(k) on a tree that does not contain k raises KeyError and
\* returns no tree (in the older module merbinertree as well).
C6_RemoveAbsent ==
    (/\ last.op = "remove"
     /\ IsValidKey(last.key)
     /\ last.key \notin DOMAIN expected
     /\ last.key \notin KeySet(last.before)) =>
        /\ last.result = Raise("KeyError")
        /\ tree = last.before
        /\ Old_remove(last.before, last.key) = Raise("KeyError")

\* the search for K80 ends at an Empty node below the root (the tree holds
\* K00, KFF and KFF80), and the remove raised KeyError
C6_Witness ==
    /\ last.op = "remove"
    /\ last.key = K80
    /\ KeySet(last.before) = {K00, KFF, KFF80}
    /\ last.before.left.right = EmptyNode
    /\ last.result = Raise("KeyError")

\* C7: `k in T` is true exactly when T[k] returns a value (the expected
\* one) and false exactly when T[k] raises KeyError.
C7_ContainsIffGet ==
    /\ (last.op = "get" /\ IsValidKey(last.key)) =>
          IF last.key \in DOMAIN expected
          THEN /\ last.result = Value(expected[last.key])
               /\ __contains__(tree, last.key) = Bool(TRUE)
          ELSE /\ last.result = Raise("KeyError")
               /\ __contains__(tree, last.key) = Bool(FALSE)
    /\ (last.op = "contains" /\ IsValidKey(last.key)) =>
          /\ last.result = Bool(last.key \in DOMAIN expected)
          /\ last.result = Bool(__getitem__(tree, last.key).type = "value")
          /\ last.result = Bool(__getitem__(tree, last.key) # Raise("KeyError"))

\* a get of KFF80 that ends at the leaf of KFF, a different key, below the
\* root and raised KeyError
C7_Witness ==
    /\ last.op = "get"
    /\ last.key = KFF80
    /\ tree.type = "Inner"
    /\ tree.left.type = "FullLeaf"
    /\ tree.left.key = KFF
    /\ last.result = Raise("KeyError")

\* C8: for every tree T and every key list Q, T.prove_contains(Q) is a
\* tree with the root hash of T.
C8_ProofHasSameHash ==
    last.op = "prove_contains" =>
        /\ IsNode(last.result)
        /\ hash(last.result).type = "bytes"
        /\ hash(last.result) = hash(last.before)

\* C9: for every q in Q, `q in T.prove_contains(Q)` equals `q in T` and
\* raises nothing, and when q is in T the pruned tree returns T's value.
C9_ProofAnswersQueries ==
    last.op = "prove_contains" =>
        /\ IsNode(last.result)
        /\ \A i \in 1..Len(last.keys) :
              /\ __contains__(last.result, last.keys[i]).type = "bool"
              /\ __contains__(last.result, last.keys[i])
                     = __contains__(last.before, last.keys[i])
              /\ last.keys[i] \in DOMAIN expected =>
                     __getitem__(last.result, last.keys[i])
                         = Value(expected[last.keys[i]])

\* pruned is subtree of the proof for key_list; every subtree that a key
\* of key_list enters and whose stored keys are all in key_list is the same
\* object in the proof
RECURSIVE SharedByIdentity(_, _, _, _)
SharedByIdentity(subtree, pruned, key_list, depth) ==
    IF /\ Len(key_list) > 0
       /\ KeySet(subtree) \subseteq {key_list[i] : i \in 1..Len(key_list)}
    THEN pruned = subtree
    ELSE IF subtree.type = "Inner" /\ pruned.type = "Inner"
    THEN /\ SharedByIdentity(subtree.left, pruned.left,
                             LeftKeys(key_list, depth), depth + 1)
         /\ SharedByIdentity(subtree.right, pruned.right,
                             RightKeys(key_list, depth), depth + 1)
    ELSE TRUE

\* C10: prove_contains(Q) returns by identity every subtree that a queried
\* key enters and whose stored keys are all in Q; when Q holds every key of
\* T the result is T itself.
C10_ProofSharesSubtrees ==
    last.op = "prove_contains" =>
        /\ IsNode(last.result)
        /\ SharedByIdentity(last.before, last.result, last.keys, 0)

\* C11: prove_contains with an empty key list returns the maximally pruned
\* tree of the same hash: a PrunedInner when the root is an Inner node, the
\* Empty singleton itself when the tree is empty, a PrunedLeaf when the
\* root is a single FullLeaf.
C11_EmptyQueryMaximallyPruned ==
    (last.op = "prove_contains" /\ last.keys = <<>>) =>
        /\ IsNode(last.result)
        /\ CASE last.before.type = "Inner" ->
                    last.result.type = "PrunedInner"
             [] last.before.type = "Empty" -> last.result = last.before
             [] last.before.type = "FullLeaf" ->
                    /\ last.result.type = "PrunedLeaf"
                    /\ last.result.key = last.before.key
             [] OTHER -> TRUE
        /\ hash(last.result) = hash(last.before)

\* the keys of the FullLeaf nodes of a proof
RECURSIVE DisclosedKeys(_)
DisclosedKeys(pruned) ==
    IF pruned.type = "Inner"
    THEN DisclosedKeys(pruned.left) \cup DisclosedKeys(pruned.right)
    ELSE IF pruned.type = "FullLeaf" THEN {pruned.key}
    ELSE {}

\* pruned is the proof's node in the place of subtree; every FullLeaf that
\* a key of key_list reaches and whose key is not in key_list is a
\* PrunedLeaf of the same key in the proof
RECURSIVE HidesUnqueried(_, _, _, _)
HidesUnqueried(subtree, pruned, key_list, depth) ==
    IF /\ subtree.type = "FullLeaf"
       /\ Len(key_list) > 0
       /\ subtree.key \notin {key_list[i] : i \in 1..Len(key_list)}
    THEN /\ pruned.type = "PrunedLeaf"
         /\ pruned.key = subtree.key
         /\ pruned.value_hash = calc_value_hash(subtree.value)
    ELSE IF subtree.type = "Inner" /\ pruned.type = "Inner"
    THEN /\ HidesUnqueried(subtree.left, pruned.left,
                           LeftKeys(key_list, depth), depth + 1)
         /\ HidesUnqueried(subtree.right, pruned.right,
                           RightKeys(key_list, depth), depth + 1)
    ELSE TRUE

\* C12: the tree returned by prove_contains(Q) discloses no value of an
\* unqueried key: every FullLeaf in it has a key in Q, and every FullLeaf
\* of T on a queried path whose key is not in Q is a PrunedLeaf of the
\* same key in it.
C12_ProofHidesUnqueried ==
    (last.op = "prove_contains" /\ IsNode(last.result)) =>
        /\ DisclosedKeys(last.result)
               \subseteq {last.keys[i] : i \in 1..Len(last.keys)}
        /\ HidesUnqueried(last.before, last.result, last.keys, 0)

\* every value that a lookup in part returns, a lookup in whole returns
CarriesInfoOf(whole, part) ==
    \A key \in Keys :
        __getitem__(part, key).type = "value" =>
            __getitem__(whole, key) = __getitem__(part, key)

\* C13: for two trees A and B with A.hash = B.hash, A.merge(B) succeeds,
\* and the merged tree has the same root hash and carries at least the
\* information of each of them.
C13_MergeSameHash ==
    (/\ last.op = "merge"
     /\ hash(last.before).type = "bytes"
     /\ hash(last.before) = hash(last.other)) =>
        /\ IsNode(last.result)
        /\ hash(last.result) = hash(last.before)
        /\ CarriesInfoOf(last.result, last.before)
        /\ CarriesInfoOf(last.result, last.other)

\* C14: merge on two trees whose root hashes differ fails with ValueError
\* (HashMismatch) and produces no tree.
C14_MergeDifferentHash ==
    (/\ last.op = "merge"
     /\ hash(last.before).type = "bytes"
     /\ hash(last.other).type = "bytes"
     /\ hash(last.before) # hash(last.other)) =>
        last.result = Raise("ValueError")

\* C15 as the specification states it: InnerNodeClass(Empty, Empty) is
\* Empty, InnerNodeClass(Empty, L) and InnerNodeClass(L, Empty) are L
\* itself for a full or pruned leaf L, and every other pair of children
\* gives a new Inner node holding exactly those two children.
C15_EveryOtherPairIsInner ==
    last.op = "InnerNodeClass" =>
        LET left == last.before
            right == last.other
        IN  IF IsEmpty(left) /\ IsEmpty(right) THEN last.result = EmptyNode
            ELSE IF IsEmpty(left) /\ IsLeaf(right) THEN last.result = right
            ELSE IF IsLeaf(left) /\ IsEmpty(right) THEN last.result = left
            ELSE last.result = [type |-> "Inner", fresh |-> TRUE,
                                left |-> left, right |-> right]

\* C15, amended: InnerNodeClass(Empty, Empty) is Empty;
\* InnerNodeClass(Empty, L) and InnerNodeClass(L, Empty) are L itself for a
\* full or pruned leaf L; two leaves whose left key is not greater than the
\* right key raise AssertionError; every other pair of children (an Inner
\* or PrunedInner next to Empty among them) gives a new Inner node holding
\* exactly those two children.
C15_InnerNormalizes ==
    last.op = "InnerNodeClass" =>
        LET left == last.before
            right == last.other
        IN  IF IsEmpty(left) /\ IsEmpty(right) THEN last.result = EmptyNode
            ELSE IF IsEmpty(left) /\ IsLeaf(right) THEN last.result = right
            ELSE IF IsLeaf(left) /\ IsEmpty(right) THEN last.result = left
            ELSE IF /\ IsLeaf(left)
                    /\ IsLeaf(right)
                    /\ ~ BytesGT(left.key, right.key)
            THEN last.result = Raise("AssertionError")
            ELSE last.result = [type |-> "Inner", fresh |-> TRUE,
                                left |-> left, right |-> right]

\* a PrunedInner node next to Empty was not collapsed: the constructor
\* returned a new Inner node holding the two
C15_Witness ==
    /\ last.op = "InnerNodeClass"
    /\ last.before.type = "PrunedInner"
    /\ last.other = EmptyNode
    /\ last.result.type = "Inner"
    /\ last.result.fresh
    /\ last.result.left = last.before
    /\ last.result.right = EmptyNode

\* the depth of the PrunedInner node that the path of key ends at, or -1
\* when the path ends at another node
RECURSIVE PrunedInnerDepth(_, _, _)
PrunedInnerDepth(self, key, depth) ==
    IF self.type = "PrunedInner" THEN depth
    ELSE IF self.type = "Inner"
    THEN PrunedInnerDepth(IF key_side(key, depth) = 1
                          THEN self.left ELSE self.right, key, depth + 1)
    ELSE -1

\* the PrunedInner nodes of a tree
PrunedInnerNodes(self) ==
    {node \in {_mt_iter_nodes(self)[i] : i \in 1..Len(_mt_iter_nodes(self))} :
         node.type = "PrunedInner"}

\* the error PrunedError(msg, key, depth) of the specification
PrunedErrorOf(msg, key, depth) ==
    [type |-> "PrunedError", msg |-> msg, key |-> key, depth |-> depth]

\* C16: a put or remove whose key routes into a PrunedInner fails with a
\* Pruned error carrying the operation "set", the key and the depth, and
\* produces no tree; a put, or a remove of a key the tree holds, whose key
\* does not route into a PrunedInner succeeds and leaves every PrunedInner
\* of the tree in the result, the same object.
C16_EditAtPrunedInner ==
    (IsEdit(last) /\ IsValidKey(last.key)) =>
        IF PrunedInnerDepth(last.before, last.key, 0) >= 0
        THEN /\ last.result
                    = PrunedErrorOf("set", last.key,
                                    PrunedInnerDepth(last.before, last.key, 0))
             /\ tree = last.before
        ELSE (last.op = "put"
                  \/ __contains__(last.before, last.key) = Bool(TRUE)) =>
                 /\ IsNode(last.result)
                 /\ PrunedInnerNodes(last.before)
                        \subseteq PrunedInnerNodes(last.result)

\* C17: get, contains and prove_contains for a key whose path reaches a
\* PrunedInner fail with a Pruned error carrying the operation "get", the
\* key and the depth; contains does not answer false.
C17_QueryAtPrunedInner ==
    /\ (/\ last.op \in {"get", "contains"}
        /\ IsValidKey(last.key)
        /\ PrunedInnerDepth(last.before, last.key, 0) >= 0) =>
           last.result
               = PrunedErrorOf("get", last.key,
                               PrunedInnerDepth(last.before, last.key, 0))
    /\ (/\ last.op = "prove_contains"
        /\ \E i \in 1..Len(last.keys) :
               PrunedInnerDepth(last.before, last.keys[i], 0) >= 0) =>
           \E i \in 1..Len(last.keys) :
               /\ PrunedInnerDepth(last.before, last.keys[i], 0) >= 0
               /\ last.result
                      = PrunedErrorOf("get", last.keys[i],
                                      PrunedInnerDepth(last.before,
                                                       last.keys[i], 0))

\* the node that the path of key ends at
RECURSIVE PathEnd(_, _, _)
PathEnd(self, key, depth) ==
    IF self.type = "Inner"
    THEN PathEnd(IF key_side(key, depth) = 1 THEN self.left ELSE self.right,
                 key, depth + 1)
    ELSE self

\* C18: when the path of k ends at a PrunedLeaf whose key is k, contains(k)
\* is true and get(k) fails with a Pruned error (not KeyError, not a
\* value); when the PrunedLeaf has another key, contains(k) is false and
\* get(k) raises KeyError.
C18_QueryAtPrunedLeaf ==
    (/\ last.op \in {"get", "contains"}
     /\ IsValidKey(last.key)
     /\ PathEnd(last.before, last.key, 0).type = "PrunedLeaf") =>
        LET same == PathEnd(last.before, last.key, 0).key = last.key
        IN  IF last.op = "contains" THEN last.result = Bool(same)
            ELSE IF same THEN last.result.type = "PrunedError"
            ELSE last.result = Raise("KeyError")

\* the tagged layout with the hash function applied at every node:
\* H(0x00), H(H(v) || k || 0x02), H(L.hash || R.hash || 0x01)
RECURSIVE TaggedHash(_)
TaggedHash(n) ==
    CASE n.type = "Empty" -> hash_func(<<0>>)
      [] n.type = "Inner" ->
            hash_func(TaggedHash(n.left) \o TaggedHash(n.right) \o <<1>>)
      [] n.type = "FullLeaf" ->
            hash_func(calc_value_hash(n.value) \o n.key \o <<2>>)
      [] n.type = "PrunedLeaf" -> hash_func(n.value_hash \o n.key \o <<2>>)
      [] n.type = "PrunedInner" -> n.pruned_hash

\* C19: the root hash follows the tagged layout with the hash function
\* applied at every node: the empty tree hashes to H(0x00), a FullLeaf to
\* H(H(v) || k || 0x02), an Inner node to H(L.hash || R.hash || 0x01).
C19_HashIsTaggedLayout ==
    last.op # "none" =>
        /\ hash(tree) = Bytes(TaggedHash(tree))
        /\ hash(last.before) = Bytes(TaggedHash(last.before))

\* C20: put_value_hash(k, vh) acts as put does but inserts
\* PrunedLeaf(k, vh): afterwards contains(k) is true, get(k) fails with a
\* Pruned error, and the root hash equals that of put(k, v) for the v whose
\* value hash is vh.
C20_PutValueHash ==
    (last.op = "put_value_hash" /\ IsValidKey(last.key)) =>
        /\ IsNode(last.result)
        /\ PathEnd(last.result, last.key, 0)
               = PrunedLeafNode(last.key, last.value)
        /\ __contains__(last.result, last.key) = Bool(TRUE)
        /\ __getitem__(last.result, last.key).type = "PrunedError"
        /\ \A value \in Values :
               (/\ calc_value_hash(value) = last.value
                /\ IsNode(put(last.before, last.key, value))) =>
                   hash(last.result)
                       = hash(put(last.before, last.key, value))
        /\ IsNode(Old_put_value_hash(last.before, last.key, last.value))

\* C21: after any sequence of puts and removes from the empty tree that
\* ends with every inserted key removed, the tree is the Empty singleton
\* itself, the object MerbinnerTree() returns (in the older module as
\* well, for the remove that empties the tree).
C21_AllRemovedIsEmpty ==
    expected = EmptyDict =>
        /\ tree = EmptyNode
        /\ tree = MerbinnerTree(<<>>)
        /\ (last.op = "remove" /\ Succeeded(last)) =>
               Old_remove(last.before, last.key) = EmptyNode

\* the remove of the last key the tree held
C21_Witness ==
    /\ last.op = "remove"
    /\ Succeeded(last)
    /\ last.before.type = "FullLeaf"
    /\ expected = EmptyDict
    /\ tree = EmptyNode

\* the elements of a sequence
Range(seq) == {seq[i] : i \in 1..Len(seq)}

\* C22: after any sequence of puts and removes from the empty tree,
\* keys(), values() and items() enumerate exactly the keys, values and
\* pairs of the expected map, every key once, and contains reports every
\* key outside the map absent.
C22_IterationMatchesExpected ==
    /\ Range(keys(tree)) = DOMAIN expected
    /\ Len(keys(tree)) = Cardinality(DOMAIN expected)
    /\ Range(values(tree)) = {expected[key] : key \in DOMAIN expected}
    /\ Len(values(tree)) = Cardinality(DOMAIN expected)
    /\ Range(items(tree)) = {<<key, expected[key]>> : key \in DOMAIN expected}
    /\ Len(items(tree)) = Cardinality(DOMAIN expected)
    /\ \A key \in Keys \ DOMAIN expected :
           __contains__(tree, key) = Bool(FALSE)

\* a tree of three keys with two different values, after a put
C22_Witness ==
    /\ last.op = "put"
    /\ Succeeded(last)
    /\ Len(keys(tree)) = 3
    /\ Range(keys(tree)) = {K00, KFF, KFF80}
    /\ Cardinality(Range(values(tree))) = 2

\* the tree that puts of the first n pairs, in their order, make of the
\* empty tree
RECURSIVE PutAll(_, _)
PutAll(pairs, n) ==
    IF n = 0 THEN EmptyNode
    ELSE put(PutAll(pairs, n - 1), pairs[n][1], pairs[n][2])

\* C23: bulk construction from pairs in which a key occurs more than once
\* terminates and yields a tree that holds the key once, with the value of
\* its last occurrence, equal to the tree that repeated put produces.
C23_BulkLastWins ==
    last.op = "from_items" =>
        /\ IsNode(last.result)
        /\ Len(keys(last.result)) = Cardinality(Range(keys(last.result)))
        /\ \A i \in 1..Len(last.keys) :
               (\A j \in (i + 1)..Len(last.keys) :
                    last.keys[j][1] # last.keys[i][1]) =>
                   __getitem__(last.result, last.keys[i][1])
                       = Value(last.keys[i][2])
        /\ hash(last.result) = hash(PutAll(last.keys, Len(last.keys)))

\* C24: contains(k) validates the key before it searches: a key that is no
\* bytes object raises TypeError and a bytes key whose length is not
\* KEYSIZE raises ValueError, on every tree, the empty one too; contains
\* does not answer False for them.
C24_ContainsChecksKey ==
    last.op = "contains" =>
        /\ ~ IsBytes(last.key) => last.result = Raise("TypeError")
        /\ (IsBytes(last.key) /\ Len(last.key) # KEYSIZE) =>
               last.result = Raise("ValueError")
        /\ IsValidKey(last.key) => last.result.type = "bool"

\* contains of a str of the right length on a tree with an Inner root
C24_Witness ==
    /\ last.op = "contains"
    /\ last.key = StrKey
    /\ last.before.type = "Inner"
    /\ last.result = Raise("TypeError")

\* no Inner node of the tree has the children (Empty, Empty), (Empty, leaf)
\* or (leaf, Empty)
RECURSIVE Compact(_)
Compact(n) ==
    n.type = "Inner" =>
        /\ ~ (IsEmpty(n.left) /\ IsEmpty(n.right))
        /\ ~ (IsEmpty(n.left) /\ IsLeaf(n.right))
        /\ ~ (IsLeaf(n.left) /\ IsEmpty(n.right))
        /\ Compact(n.left)
        /\ Compact(n.right)

Bit(key, d) == (key[(d \div 8) + 1] \div (2 ^ (7 - (d % 8)))) % 2

\* n is a subtree at depth: every leaf below the left child of an Inner
\* node has bit 1 at the node's depth, every leaf below the right child
\* bit 0, and two leaf children have left.key > right.key
RECURSIVE Routed(_, _)
Routed(n, depth) ==
    n.type = "Inner" =>
        /\ \A key \in KeySet(n.left) : Bit(key, depth) = 1
        /\ \A key \in KeySet(n.right) : Bit(key, depth) = 0
        /\ (IsLeaf(n.left) /\ IsLeaf(n.right)) =>
               /\ Bit(n.left.key, depth) # Bit(n.right.key, depth)
               /\ BytesGT(n.left.key, n.right.key)
        /\ Routed(n.left, depth + 1)
        /\ Routed(n.right, depth + 1)

\* C26: in every tree reached by bulk construction, put and remove with
\* distinct keys, a leaf below the left child of an Inner node at depth d
\* has bit d of its key equal to 1 and a leaf below the right child has it
\* equal to 0, for every ancestor; two leaf children of one Inner node
\* differ at its depth, and the constructor's assertion left.key >
\* right.key never fails.
C26_Routing ==
    /\ Routed(tree, 0)
    /\ IsNode(last.result) => Routed(last.result, 0)
    /\ last.result # Raise("AssertionError")

\* the put of KFF80 into the tree of K00 and KFF: the new leaf parts from
\* KFF eight levels down
C26_Witness ==
    /\ last.op = "put"
    /\ last.key = KFF80
    /\ KeySet(last.before) = {K00, KFF}
    /\ KeySet(tree) = {K00, KFF, KFF80}
    /\ Routed(tree, 0)

\* the nodes of a tree
Nodes(self) == Range(_mt_iter_nodes(self))

\* C27: a pruned node has the hash of the node it replaces: the PrunedLeaf
\* made from a FullLeaf has the FullLeaf's hash, and a PrunedInner made
\* for an Inner node reports the Inner node's hash as its own, so that the
\* hash of its parent can be computed.
C27_PrunedHashEquivalent ==
    /\ \A n \in Nodes(tree) :
           n.type = "FullLeaf" => hash(from_FullLeafNode(n)) = hash(n)
    /\ \A n \in Nodes(tree) :
           n.type = "PrunedInner" => hash(n) = Bytes(n.pruned_hash)
    /\ last.op = "prune" =>
           /\ hash(last.result).type = "bytes"
           /\ hash(last.result) = hash(last.before)

\* the subtrees of self that the path of key does not enter: the siblings
\* of the nodes on the path
RECURSIVE OffPath(_, _, _)
OffPath(self, key, depth) ==
    IF self.type # "Inner" THEN {}
    ELSE IF key_side(key, depth) = 1
    THEN {self.right} \cup OffPath(self.left, key, depth + 1)
    ELSE {self.left} \cup OffPath(self.right, key, depth + 1)

\* C28: edits share structure by identity: in the tree that put(k, v) or
\* remove(k) returns, every subtree of the original that the path of k
\* does not enter is the same object as in the original; and an Inner node
\* whose two recomputed children are its own children returns itself, not
\* a new node.
C28_EditsShareStructure ==
    (IsEdit(last) /\ IsValidKey(last.key)) =>
        /\ Succeeded(last) =>
               \A subtree \in OffPath(last.before, last.key, 0) :
                   ~ IsEmpty(subtree) => subtree \in Nodes(last.result)
        /\ last.result = Raise("KeyError") =>
               _mt_put_keys(last.before, <<<<last.key, EmptyNode>>>>,
                            0, FALSE).new = last.before

\* a put of K00 into the tree of K00, KFF and KFF80: the chain of Inner
\* nodes above KFF and KFF80 is in the new tree, the same object
C28_Witness ==
    /\ last.op = "put"
    /\ last.key = K00
    /\ Succeeded(last)
    /\ KeySet(last.before) = {K00, KFF, KFF80}
    /\ last.before.left.type = "Inner"
    /\ last.result.left = last.before.left
    /\ last.result # last.before

\* pruned is the proof's node in the place of subtree: an Empty node is
\* itself, an Inner node that no key of key_list enters is a PrunedInner
\* with its hash, an Inner node that a key enters is an Inner node of the
\* proofs of its children
RECURSIVE ProofShape(_, _, _, _)
ProofShape(subtree, pruned, key_list, depth) ==
    CASE subtree.type = "Empty" -> pruned = subtree
      [] subtree.type = "Inner" /\ Len(key_list) = 0 ->
            /\ pruned.type = "PrunedInner"
            /\ Bytes(pruned.pruned_hash) = hash(subtree)
      [] subtree.type = "Inner" /\ Len(key_list) > 0 ->
            /\ pruned.type = "Inner"
            /\ ProofShape(subtree.left, pruned.left,
                          LeftKeys(key_list, depth), depth + 1)
            /\ ProofShape(subtree.right, pruned.right,
                          RightKeys(key_list, depth), depth + 1)
      [] OTHER -> TRUE

\* C29: in prove_contains(Q) every Inner subtree of T that no key of Q
\* routes into is replaced by a PrunedInner carrying that Inner node's
\* hash, an Inner node that a key of Q routes into is kept as an Inner
\* node of its recursively pruned children, and an Empty node is returned
\* as itself.
C29_ProofPrunesUntouched ==
    (last.op = "prove_contains" /\ Len(last.keys) > 0) =>
        /\ IsNode(last.result)
        /\ ProofShape(last.before, last.result, last.keys, 0)

\* the key -> value map a tree represents, as the set of its pairs
MapOf(self) == Range(items(self))

\* the trees that puts make of the empty tree, for every sequence of at
\* most MaxKeys (key, value) pairs: the map and the root hash of each
TreesByPuts ==
    {[keys |-> KeySet(other), map |-> MapOf(other), hash |-> hash(other)] :
         other \in {PutAll(pairs, Len(pairs)) :
                        pairs \in SeqsUpTo(Keys \X Values, MaxKeys)}}

\* every tree made by puts that has the root hash represents the map
OnlyMapWithHash(map, root_hash) ==
    \A other \in TreesByPuts : other.hash = root_hash => other.map = map

\* C30: two unpruned trees reached by puts and removes that represent
\* different key -> value maps (a key in one of them only, or a key with
\* two different values) have different root hashes, the value hash being
\* injective on the values used.
C30_DifferentMapsDifferentHashes ==
    /\ OnlyMapWithHash(MapOf(tree), hash(tree))
    /\ (IsEdit(last) /\ Succeeded(last)) =>
           (MapOf(last.before) # MapOf(tree)
                => hash(last.before) # hash(tree))

\* a put that gave another value to one of three keys: same keys, another
\* map, another hash
C30_Witness ==
    /\ last.op = "put"
    /\ Succeeded(last)
    /\ Cardinality(KeySet(tree)) = 3
    /\ KeySet(tree) = KeySet(last.before)
    /\ MapOf(tree) # MapOf(last.before)
    /\ hash(tree) # hash(last.before)
    /\ \E other \in TreesByPuts :
           /\ other.keys # KeySet(tree)
           /\ Cardinality(other.keys) = 3
           /\ other.hash # hash(tree)

====
